---- MODULE Spec2Model ----
(***************************************************************************)
(* Position plan calculator and portfolio ledger of src/app.py.            *)
(*                                                                         *)
(* Units.  Money (cash, total_assets, step1_money, cost, profit) is in     *)
(* whole yuan.  Prices are in fen (1/100 yuan), the resolution of the      *)
(* "%.2f" price input.  Fractions of STRATEGY are in percent.  With these  *)
(* units every quantity the ledger reads is an integer, and the float      *)
(* expressions of calculate_plan are computed exactly; `//` is Python's    *)
(* floor division, which \div is as well (it rounds toward minus infinity).*)
(* Dates are day numbers; datetime.now() is the variable today.            *)
(* The value of the number_input with key profit_{i} lives in the widget   *)
(* state under that key for as long as a position is rendered at index i:  *)
(* profit_input[i] is that value, 0.0 when the key is new, and the key of  *)
(* the last index goes when the list shrinks.                              *)
(* Plan fields that no ledger operation reads (name, avg_price, tp1_price, *)
(* post_add_tp1, stop_price, reason_type, reason_detail) are not carried.  *)
(***************************************************************************)
EXTENDS Integers, Sequences, FiniteSets, TLC

VARIABLES
    total_assets,    \* st.session_state.total_assets
    cash,            \* st.session_state.cash
    active_trades,   \* st.session_state.active_trades (index 1 = Python index 0)
    history_trades,  \* st.session_state.history_trades
    code_input,      \* text_input "股票代码"
    buy_price,       \* number_input "拟买入价格", in fen
    profit_input,    \* widget state of key profit_{i}, one per rendered position
    msg,             \* st.error / st.success emitted by the last handler
    today,           \* datetime.now(), as a day number
    next_id          \* identity of the next dict calculate_plan creates

vars == <<total_assets, cash, active_trades, history_trades, code_input,
          buy_price, profit_input, msg, today, next_id>>

ledger == <<total_assets, cash, active_trades, history_trades>>

-----------------------------------------------------------------------------
(* Bounds *)

MaxTrades == 2      \* successful opens in one behaviour
MaxDay == 1         \* days the clock may advance

(* Inputs *)

\* Instrument codes are sequences of decimal digits.
Code600519 == <<6, 0, 0, 5, 1, 9>>
Code300750 == <<3, 0, 0, 7, 5, 0>>
Code830799 == <<8, 3, 0, 7, 9, 9>>

\* (code, price in fen) pairs the user may enter: 100.00, 1000.00 and 10.00
QuoteSet == {<<Code600519, 10000>>, <<Code600519, 100000>>, <<Code300750, 1000>>}
\* values typed into a position's "平仓盈亏" input (0 is its default)
ProfitSet == {-1005000, -915000, 5000}
\* inputs of the calculator on its own
CapitalSet == {1, 12499, 12500, 50000, 124999, 125000, 1000000, 1250000}
CalcPriceSet == {333, 1000, 9999, 10000, 100000}
CalcCodeSet == {Code600519, Code300750, Code830799}

(* Program constants *)

InitialCash == 1000000
LotSize == 100
DeadlineDays == 28

STRATEGY ==
    [position_ratio |-> 16, batch_split |-> 50, add_buy_drop |-> 7,
     stop_loss_from_avg |-> 7, tp_main_board |-> 5, tp_tech_board |-> 7,
     trailing_drop |-> 8, max_days |-> 20]

TechPrefixes == {<<6, 8, 8>>, <<3, 0, 0>>, <<4>>, <<8>>}

-----------------------------------------------------------------------------
(* Pure functions *)

startswith(s, p) == Len(s) >= Len(p) /\ SubSeq(s, 1, Len(p)) = p

get_board_type(code) ==
    IF \E p \in TechPrefixes : startswith(code, p) THEN "tech" ELSE "main"

\* batch_money in 1/10000 yuan: total_capital * 0.16 * 0.5
batch_money(total_capital) ==
    total_capital * STRATEGY.position_ratio * STRATEGY.batch_split

\* add_buy_price in 1/10000 yuan: buy_price * (1 - 0.07)
add_buy_price(price) == price * (100 - STRATEGY.add_buy_drop)

\* rounds to the nearest lot instead of down
step1_shares_Nearest(total_capital, price) ==
    ((batch_money(total_capital) + price * 50 * LotSize)
        \div (price * 100 * LotSize)) * LotSize

\* int(batch_money / buy_price // 100 * 100)
step1_shares(total_capital, price) ==
    (batch_money(total_capital) \div (price * 100 * LotSize)) * LotSize

\* int(batch_money / add_buy_price // 100 * 100)
step2_shares(total_capital, price) ==
    (batch_money(total_capital) \div (add_buy_price(price) * LotSize)) * LotSize

calculate_plan(total_capital, price, code, now, id) ==
    IF step1_shares(total_capital, price) = 0
    THEN [plan |-> "None", error |-> "InsufficientCapitalForOneLot"]
    ELSE [plan |->
            [code |-> code, board |-> get_board_type(code),
             buy_price |-> price,
             step1_shares |-> step1_shares(total_capital, price),
             step1_money |-> (step1_shares(total_capital, price) \div LotSize) * price,
             step2_price |-> add_buy_price(price),
             step2_shares |-> step2_shares(total_capital, price),
             tp_pct |-> IF get_board_type(code) = "tech"
                        THEN STRATEGY.tp_tech_board ELSE STRATEGY.tp_main_board,
             deadline |-> now + DeadlineDays,
             date |-> now,
             id |-> id],
          error |-> "None"]

RECURSIVE SumMoney(_)
SumMoney(s) == IF s = <<>> THEN 0 ELSE Head(s).step1_money + SumMoney(Tail(s))

calculate_market_value == SumMoney(active_trades)

\* pops the first element whatever the index
pop_First(s, i) == Tail(s)

\* list.pop(i), i counted from 1
pop(s, i) == SubSeq(s, 1, i - 1) \o SubSeq(s, i + 1, Len(s))

-----------------------------------------------------------------------------
(* State machine *)

Init ==
    /\ total_assets = InitialCash
    /\ cash = InitialCash
    /\ active_trades = <<>>
    /\ history_trades = <<>>
    /\ code_input = <<>>
    /\ buy_price = 0
    /\ profit_input = <<>>
    /\ msg = ""
    /\ today = 0
    /\ next_id = 1

\* The plan the preview column computes in the current run.
Preview == calculate_plan(total_assets, buy_price, code_input, today, next_id)

\* if buy_price > 0 and code_input
PreviewShown == buy_price > 0 /\ code_input # <<>>

\* compares the cost with the capital figure instead of the cash
insufficient_cash_VsTotal(plan) == plan.step1_money > total_assets

\* if plan['step1_money'] > st.session_state.cash
insufficient_cash(plan) == plan.step1_money > cash

\* list.insert(0, x)
insert0(s, x) == <<x>> \o s

\* credits the profit without the principal
cash_after_close_ProfitOnly(trade, close_profit) == cash + close_profit

\* st.session_state.cash += (trade['cost'] + close_profit)
cash_after_close(trade, close_profit) == cash + (trade.cost + close_profit)

\* counts the position being closed in the market value
total_after_close_NoSubtract(cash_after, trade) ==
    cash_after + calculate_market_value

\* st.session_state.total_assets = cash + calculate_market_value() - trade['cost']
total_after_close(cash_after, trade) ==
    cash_after + calculate_market_value - trade.cost

SetInput ==
    \E q \in QuoteSet :
        /\ code_input' = q[1]
        /\ buy_price' = q[2]
        /\ msg' = ""
        /\ UNCHANGED <<ledger, profit_input, today, next_id>>

SetProfit ==
    \E i \in DOMAIN profit_input, v \in ProfitSet :
        /\ profit_input' = [profit_input EXCEPT ![i] = v]
        /\ msg' = ""
        /\ UNCHANGED <<ledger, code_input, buy_price, today, next_id>>

ConfirmRejected ==
    /\ PreviewShown
    /\ Preview.error = "None"
    /\ insufficient_cash(Preview.plan)
    /\ msg' = "InsufficientCash"
    /\ UNCHANGED <<ledger, code_input, buy_price, profit_input, today, next_id>>

ConfirmExecuted ==
    /\ PreviewShown
    /\ Preview.error = "None"
    /\ ~ insufficient_cash(Preview.plan)
    /\ next_id <= MaxTrades
    /\ cash' = cash - Preview.plan.step1_money
    /\ active_trades' =
         insert0(active_trades, Preview.plan @@ [cost |-> Preview.plan.step1_money])
    /\ profit_input' = Append(profit_input, 0)
    /\ msg' = "Opened"
    /\ next_id' = next_id + 1
    /\ UNCHANGED <<total_assets, history_trades, code_input, buy_price, today>>

Close ==
    \E i \in DOMAIN active_trades :
        LET trade == active_trades[i]
            close_profit == profit_input[i]
            cash_after == cash_after_close(trade, close_profit)
        IN  /\ cash' = cash_after
            /\ total_assets' = total_after_close(cash_after, trade)
            /\ history_trades' =
                 insert0(history_trades,
                         trade @@ [profit |-> close_profit, close_date |-> today])
            /\ active_trades' = pop(active_trades, i)
            /\ profit_input' = SubSeq(profit_input, 1, Len(profit_input) - 1)
            /\ msg' = "Archived"
            /\ UNCHANGED <<code_input, buy_price, today, next_id>>

Reset ==
    /\ total_assets' = InitialCash
    /\ cash' = InitialCash
    /\ active_trades' = <<>>
    /\ history_trades' = <<>>
    /\ profit_input' = <<>>
    /\ msg' = "Reset"
    /\ UNCHANGED <<code_input, buy_price, today, next_id>>

Tick ==
    /\ today < MaxDay
    /\ today' = today + 1
    /\ UNCHANGED <<ledger, code_input, buy_price, profit_input, msg, next_id>>

Next ==
    \/ SetInput
    \/ SetProfit
    \/ ConfirmRejected
    \/ ConfirmExecuted
    \/ Close
    \/ Reset
    \/ Tick

Spec == Init /\ [][Next]_vars

-----------------------------------------------------------------------------
(* The calculator on its own: any positive capital figure, any positive    *)
(* price, then plans computed and executed against them.                   *)

InitCalc ==
    /\ total_assets \in CapitalSet
    /\ cash = total_assets
    /\ active_trades = <<>>
    /\ history_trades = <<>>
    /\ code_input \in CalcCodeSet
    /\ buy_price \in CalcPriceSet
    /\ profit_input = <<>>
    /\ msg = ""
    /\ today = 0
    /\ next_id = 1

NextCalc ==
    \/ SetInput
    \/ ConfirmExecuted
    \/ Tick

SpecCalc == InitCalc /\ [][NextCalc]_vars

-----------------------------------------------------------------------------
(* Vocabulary of the properties *)

RECURSIVE SumCost(_)
SumCost(s) == IF s = <<>> THEN 0 ELSE Head(s).cost + SumCost(Tail(s))

RECURSIVE SumProfit(_)
SumProfit(s) == IF s = <<>> THEN 0 ELSE Head(s).profit + SumProfit(Tail(s))

Ids(s) == {s[i].id : i \in DOMAIN s}

OpenStep == Len(active_trades') = Len(active_trades) + 1
CloseStep == Len(history_trades') = Len(history_trades) + 1
ResetStep == msg' = "Reset" /\ active_trades' = <<>> /\ history_trades' = <<>>

-----------------------------------------------------------------------------
(* C1: cash conservation.  From the initial ledger, cash plus the cost     *)
(* committed to the open positions equals the initial cash plus the        *)
(* profit realized by the closed positions; an open leaves cash plus       *)
(* committed cost unchanged and a close changes it by exactly the profit   *)
(* typed into the closed position's input.                                 *)
C1_CashConservation ==
    /\ [](cash + SumCost(active_trades)
            = InitialCash + SumProfit(history_trades))
    /\ [][/\ OpenStep =>
                cash' + SumCost(active_trades') = cash + SumCost(active_trades)
          /\ CloseStep =>
                /\ (cash' + SumCost(active_trades'))
                      - (cash + SumCost(active_trades))
                    = Head(history_trades').profit
                /\ \E i \in DOMAIN active_trades :
                      /\ active_trades[i].id = Head(history_trades').id
                      /\ profit_input[i] = Head(history_trades').profit]_vars

\* a loss has been realized while another position stays open
C1_Witness ==
    /\ history_trades # <<>>
    /\ active_trades # <<>>
    /\ Head(history_trades).profit < 0
    /\ cash > 0

-----------------------------------------------------------------------------
(* C2: the open is all or nothing.  It is rejected exactly when the cost   *)
(* of the first tranche exceeds the cash, and then cash, total_assets and  *)
(* both lists are unchanged; otherwise cash decreases by exactly that      *)
(* cost, the new position is the first open position, its committed cost   *)
(* is the cost of the first tranche, and the closed positions are          *)
(* unchanged.                                                              *)
C2_OpenAllOrNothing ==
    [][/\ (msg' = "InsufficientCash" /\ msg # "InsufficientCash") =>
            /\ PreviewShown
            /\ Preview.error = "None"
            /\ Preview.plan.step1_money > cash
            /\ UNCHANGED ledger
       /\ OpenStep =>
            /\ PreviewShown
            /\ Preview.error = "None"
            /\ Preview.plan.step1_money <= cash
            /\ cash' = cash - Preview.plan.step1_money
            /\ Head(active_trades').id = next_id
            /\ Head(active_trades').cost = Preview.plan.step1_money
            /\ Tail(active_trades') = active_trades
            /\ UNCHANGED <<total_assets, history_trades>>]_vars

\* a confirmation has just been rejected for lack of cash
C2_Witness ==
    /\ msg = "InsufficientCash"
    /\ cash > 0
    /\ Preview.error = "None"
    /\ Preview.plan.step1_shares > 0
    /\ Preview.plan.step1_money > cash

-----------------------------------------------------------------------------
(* C3: the life of a position is nonexistent, open, closed.  Open and      *)
(* closed positions are disjoint and without repetition; short of a reset  *)
(* a closed position stays closed and never returns to the open list, a    *)
(* position is closed only from the open list, and a position that enters  *)
(* the open list was never in the ledger before.                           *)
C3_Lifecycle ==
    /\ [](/\ Ids(active_trades) \cap Ids(history_trades) = {}
          /\ Cardinality(Ids(active_trades)) = Len(active_trades)
          /\ Cardinality(Ids(history_trades)) = Len(history_trades)
          /\ \A id \in Ids(active_trades) \cup Ids(history_trades) :
                id < next_id)
    /\ [][~ ResetStep =>
            /\ Ids(history_trades) \subseteq Ids(history_trades')
            /\ Ids(active_trades') \cap Ids(history_trades) = {}
            /\ (Ids(history_trades') \ Ids(history_trades))
                  \subseteq Ids(active_trades)
            /\ (Ids(active_trades) \ Ids(active_trades'))
                  \subseteq Ids(history_trades')
            /\ \A id \in Ids(active_trades') \ Ids(active_trades) :
                  id >= next_id]_vars

\* the older of two positions has been closed, the newer is still open
C3_Witness ==
    /\ Len(history_trades) = 1
    /\ Len(active_trades) = 1
    /\ Head(history_trades).id < Head(active_trades).id

-----------------------------------------------------------------------------
(* C10: total_assets, the capital figure the calculator is fed, equals     *)
(* cash plus the cost committed to the open positions in every state; an   *)
(* open leaves it unchanged.                                               *)
C10_BaselineIsCashPlusCommitted ==
    /\ [](total_assets = cash + SumCost(active_trades))
    /\ [][OpenStep => total_assets' = total_assets]_vars

\* a close has moved the capital figure while a position stays open
C10_Witness ==
    /\ msg = "Archived"
    /\ active_trades # <<>>
    /\ total_assets # InitialCash

-----------------------------------------------------------------------------
(* C4: every open position has first and second tranche share counts that  *)
(* are non-negative multiples of 100, the first one positive, whatever     *)
(* profits and losses were realized before it was opened.                  *)
C4_LotMultiples ==
    \A i \in DOMAIN active_trades :
        /\ active_trades[i].step1_shares % LotSize = 0
        /\ active_trades[i].step1_shares > 0
        /\ active_trades[i].step2_shares % LotSize = 0
        /\ active_trades[i].step2_shares >= 0

-----------------------------------------------------------------------------
(* C5: the identifier by which an open position and its profit input are   *)
(* addressed, its index in the open list, stays the same as long as the    *)
(* position is open: no open or close of another position changes it, nor  *)
(* the value of the input attached to the position.                        *)
C5_StableIdentifier ==
    [][\A i \in DOMAIN active_trades, j \in DOMAIN active_trades' :
          active_trades[i].id = active_trades'[j].id =>
              /\ i = j
              /\ (OpenStep \/ CloseStep) => profit_input'[j] = profit_input[i]]_vars

-----------------------------------------------------------------------------
(* C6: for every instrument, the cost committed to its open positions is   *)
(* at most position_ratio (16%) of total_assets.                           *)
CommittedTo(code) ==
    SumCost(SelectSeq(active_trades, LAMBDA t : t.code = code))

C6_SingleInstrumentCap ==
    \A i \in DOMAIN active_trades :
        CommittedTo(active_trades[i].code) * 100
            <= STRATEGY.position_ratio * total_assets

-----------------------------------------------------------------------------
(* C7: for positive capital and price, calculate_plan fails exactly when   *)
(* the first-tranche budget (capital * 16% * 50%) buys less than one lot   *)
(* at the entry price; otherwise the first tranche is the largest positive *)
(* multiple of 100 shares whose cost at the entry price fits the budget,   *)
(* its cost is shares * price, and the second tranche is the largest       *)
(* multiple of 100 shares that fits the same budget at the trigger price   *)
(* (entry price less 7%), hence at least the first tranche.                *)
\* budget in 1/10000 yuan, prices in fen: shares * fen * 100 is in 1/10000 yuan
C7_PlanSizing ==
    (total_assets > 0 /\ buy_price > 0) =>
        LET budget == total_assets * 16 * 50
            lot_cost == LotSize * buy_price * 100
            trigger == buy_price * 93
            r == Preview
        IN  /\ r.error # "None" <=> budget < lot_cost
            /\ r.error # "None" => r.plan = "None"
            /\ r.error = "None" =>
                 /\ r.plan.step1_shares > 0
                 /\ r.plan.step1_shares % 100 = 0
                 /\ r.plan.step1_shares * buy_price * 100 <= budget
                 /\ budget < (r.plan.step1_shares + 100) * buy_price * 100
                 /\ r.plan.step1_money * 100 = r.plan.step1_shares * buy_price
                 /\ r.plan.step1_money * 10000 <= budget
                 /\ r.plan.step2_price = trigger
                 /\ r.plan.step2_shares % 100 = 0
                 /\ r.plan.step2_shares * trigger <= budget
                 /\ budget < (r.plan.step2_shares + 100) * trigger
                 /\ r.plan.step2_shares >= r.plan.step1_shares
            /\ \A i \in DOMAIN active_trades :
                 /\ active_trades[i].step1_shares > 0
                 /\ active_trades[i].step1_shares % 100 = 0
                 /\ active_trades[i].cost * 10000 <= budget

\* a plan whose second tranche is larger than its first has been executed
C7_Witness ==
    /\ active_trades # <<>>
    /\ Head(active_trades).step2_shares > Head(active_trades).step1_shares
    /\ Head(active_trades).buy_price = 333

-----------------------------------------------------------------------------
(* C8: the deadline of a plan is its creation date plus max_days (20)      *)
(* calendar days.                                                          *)
C8_DeadlineIsMaxDays ==
    /\ (PreviewShown /\ Preview.error = "None") =>
          Preview.plan.deadline = Preview.plan.date + STRATEGY.max_days
    /\ \A i \in DOMAIN active_trades :
          active_trades[i].deadline = active_trades[i].date + STRATEGY.max_days

-----------------------------------------------------------------------------
(* C9: cash is never negative.                                             *)
C9_CashNonNegative == cash >= 0

====
